---- MODULE Spec2Model ----
(***************************************************************************)
(* Bookly: the token authentication and revocation subsystem, and the      *)
(* review and tag services behind it.                                      *)
(*                                                                         *)
(* The model follows src/src/auth (routers.py, dependencies.py, utils.py,  *)
(* service.py), src/src/db/redis.py, src/src/reviews and                   *)
(* src/src/tag/service.py.  Every HTTP request is a small                  *)
(* process, a record in the bag `req`; it advances from one `await` of the *)
(* handler to the next, so that other requests and the clock can move in   *)
(* between, as they can under the asyncio event loop.                      *)
(*                                                                         *)
(* Time is counted in seconds.  `now` is the true (UTC) epoch clock, the   *)
(* one PyJWT's decode and the Redis server use.  `tz` is the UTC offset of *)
(* the server's local time zone: the code reads the clock with the naive   *)
(* datetime.now(), which is local wall-clock time.                         *)
(***************************************************************************)
EXTENDS Integers, Sequences, FiniteSets, Bags, TLC

VARIABLES
    now,      \* true epoch time in seconds (UTC)
    tz,       \* UTC offset of the server's local time, in seconds
    users,    \* table user_accounts: a sequence of rows
    books,    \* table books, each row with the tags linked to it (bookTag)
    reviews,  \* table reviews: a sequence of rows
    tags,     \* table tags: a sequence of rows
    issued,   \* the signed tokens handed out so far, in order of issue
    logins,   \* the (access jti, refresh jti) pair of every successful login
    store,    \* Redis token_blocklist: jti -> time at which the key expires
    req,      \* the requests in flight: a bag of request records
    revoked,  \* history: the jti of every token a logout has revoked
    nreq,     \* number of requests the server has taken (bounds the run)
    ticks     \* number of clock steps taken (bounds the run)

vars == <<now, tz, users, books, reviews, tags, issued, logins, store, req,
          revoked, nreq, ticks>>

---------------------------------------------------------------------------
(* Bounds of the model *)

MaxTicks  == 2      \* clock steps in a run; see Tick
MaxLatency == 1     \* seconds that can pass while a request is in flight
MaxLogins == 1      \* successful logins in a run
MaxRequests == 3   \* requests the server takes in a run
MaxUsers  == 3      \* rows in user_accounts

Reqs       == {"r1", "r2"}                \* the server handles two requests at a time
Emails     == {"a@x.io", "b@x.io"}
\* A password is its bytes in two parts: the first 72, and those beyond
\* them when it is longer.
Passwords  == {<<"secret1">>, <<"secret2">>}
LongPasswords == {<<"the first seventy-two bytes", "x">>,
                  <<"the first seventy-two bytes", "y">>}
Salts      == {"salt1"}                   \* bcrypt's random salt
UTCOffsets == {0, 3600}                   \* server time zones: UTC, UTC+1

---------------------------------------------------------------------------
(* Program constants *)

ACCESS_TOKEN_EXPIRY  == 3600              \* utils.py: seconds
REFRESH_TOKEN_EXPIRY == 2                 \* routers.py: days
JTI_EXPIRY           == 3600              \* redis.py: seconds

JWT_SECRET == "Config.JWT_SECRET"
JWT_ALGORITHM == "Config.JWT_ALGORITHM"
None       == [none |-> TRUE]

\* datetime.timedelta(days=d, seconds=s), in seconds
timedelta(d, s) == d * 86400 + s

\* datetime.now(): the naive local wall-clock reading, as seconds
datetime_now == now + tz

\* datetime.fromtimestamp(ts): epoch seconds to naive local time
datetime_fromtimestamp(ts) == ts + tz

---------------------------------------------------------------------------
(* Password Hasher: src/src/auth/utils.py *)

\* passlib's bcrypt, as an ideal salted one-way hash of what bcrypt reads:
\* the salt and the first 72 bytes of the password (passlib truncates a
\* longer one silently, truncate_error being off by default).
bcrypt(password, salt) == <<"$2b$", salt, Head(password)>>

generate_passwd_hash(password, salt) == bcrypt(password, salt)

\* passwd_context.verify: re-hash with the salt stored in the hash, compare
verify_password(password, hash) == bcrypt(password, hash[2]) = hash

---------------------------------------------------------------------------
(* Token Codec: src/src/auth/utils.py *)

\* create_access_token that drops its `refresh` argument
create_access_token_no_flag(user_data, expiry, refresh, uuid) ==
    [scheme  |-> "jwt",
     alg     |-> JWT_ALGORITHM,
     key     |-> JWT_SECRET,
     payload |-> [users   |-> user_data,
                  exp     |-> datetime_now +
                              (IF expiry /= <<>> THEN expiry[1]
                               ELSE timedelta(0, ACCESS_TOKEN_EXPIRY)),
                  jti     |-> uuid,
                  refresh |-> FALSE]]

\* create_access_token(user_data, expiry=None, refresh=False).  `expiry` is
\* <<>> for None and <<seconds>> for a timedelta; `uuid` is the value
\* uuid4() returns.  payload["exp"] is the naive datetime.now() + ttl;
\* jwt.encode turns it into a timestamp with timegm(exp.utctimetuple()),
\* which reads the naive wall-clock value as if it were UTC.
create_access_token(user_data, expiry, refresh, uuid) ==
    [scheme  |-> "jwt",
     alg     |-> JWT_ALGORITHM,
     key     |-> JWT_SECRET,
     payload |-> [users   |-> user_data,
                  exp     |-> datetime_now +
                              (IF expiry /= <<>> THEN expiry[1]
                               ELSE timedelta(0, ACCESS_TOKEN_EXPIRY)),
                  jti     |-> uuid,
                  refresh |-> refresh]]

\* an exception raised to the caller
Raise(e) == [raised |-> e]

Raised(r) == "raised" \in DOMAIN r

\* the exceptions of PyJWT that jwt.decode raises, all of them subclasses of
\* jwt.PyJWTError
PyJWTError ==
    {"DecodeError", "InvalidAlgorithmError", "InvalidSignatureError",
     "ExpiredSignatureError"}

\* jwt.decode(jwt=token, key=Config.JWT_SECRET, algorithms=[Config.
\* JWT_ALGORITHM]): the payload, or the exception raised.  The token is
\* split and its header read (DecodeError), its alg is looked up in
\* algorithms (InvalidAlgorithmError), the signature is verified
\* (InvalidSignatureError) and exp is compared with the UTC clock
\* (ExpiredSignatureError when exp <= now).
jwt_decode(token) ==
    IF token.scheme /= "jwt" THEN Raise("DecodeError")
    ELSE IF token.alg /= JWT_ALGORITHM THEN Raise("InvalidAlgorithmError")
    ELSE IF token.key /= JWT_SECRET THEN Raise("InvalidSignatureError")
    ELSE IF token.payload.exp <= now THEN Raise("ExpiredSignatureError")
    ELSE token.payload

\* decode_token with an expiry test that lets a token through at the very
\* second it expires
decode_token_at_expiry(token) ==
    IF token.scheme /= "jwt" THEN None
    ELSE IF token.alg /= JWT_ALGORITHM THEN None
    ELSE IF token.key /= JWT_SECRET THEN None
    ELSE IF token.payload.exp < now THEN None
    ELSE token.payload

\* decode_token with `except jwt.ExpiredSignatureError` in place of `except
\* jwt.PyJWTError`
decode_token_except_expired(token) ==
    LET token_data == jwt_decode(token)
    IN  IF Raised(token_data) /\ token_data.raised = "ExpiredSignatureError"
        THEN None
        ELSE token_data

\* decode_token(token): the payload jwt.decode returns; an exception that
\* is a jwt.PyJWTError is caught and None returned, any other goes on to
\* the caller.
decode_token(token) ==
    LET token_data == jwt_decode(token)
    IN  IF Raised(token_data) /\ token_data.raised \in PyJWTError
        THEN None
        ELSE token_data

---------------------------------------------------------------------------
(* Revocation Store: src/src/db/redis.py *)

\* add_jti_to_blocklist as SET ... NX: a key already there keeps its expiry
add_jti_to_blocklist_nx(jti) ==
    IF jti \in DOMAIN store THEN store ELSE (jti :> (now + JTI_EXPIRY)) @@ store

\* add_jti_to_blocklist setting the key without ex=JTI_EXPIRY: it never
\* expires within a run
add_jti_to_blocklist_no_ex(jti) == (jti :> (now + 1000 * JTI_EXPIRY)) @@ store

\* add_jti_to_blocklist revoking the token's sibling of the same login too
add_jti_to_blocklist_pair(jti) ==
    (jti :> (now + JTI_EXPIRY)) @@ ((jti + 1) :> (now + JTI_EXPIRY)) @@ store

\* add_jti_to_blocklist(jti): SET jti "" EX JTI_EXPIRY; the value is the
\* store after the call.
add_jti_to_blocklist(jti) == (jti :> (now + JTI_EXPIRY)) @@ store

\* token_in_blocklist(jti): GET jti is not None; an expired key is gone.
token_in_blocklist(jti) == jti \in DOMAIN store /\ now < store[jti]

\* Redis drops the keys whose time-to-live has run out at time t.
ExpireKeys(s, t) == [j \in {k \in DOMAIN s : s[k] > t} |-> s[j]]

---------------------------------------------------------------------------
(* User directory: src/src/auth/service.py *)

Min(S) == CHOOSE x \in S : \A y \in S : x <= y

\* UserService.get_user_by_email: result.first() of the SELECT, or None
get_user_by_email(email) ==
    LET rows == {i \in 1..Len(users) : users[i].email = email}
    IN  IF rows = {} THEN None ELSE users[Min(rows)]

\* UserService.user_exists
user_exists(email) == get_user_by_email(email) /= None

\* UserService.create_user leaving the role to a value other than "user"
create_user_as_admin(email, password, salt) ==
    [uid           |-> Len(users) + 1,
     email         |-> email,
     password_hash |-> generate_passwd_hash(password, salt),
     role          |-> "admin",
     plaintext     |-> password]

\* UserService.create_user: the row added by session.add / commit.
\* `plaintext` is no column: it records what the row was registered with,
\* for the statement of properties only.
create_user(email, password, salt) ==
    [uid           |-> Len(users) + 1,
     email         |-> email,
     password_hash |-> generate_passwd_hash(password, salt),
     role          |-> "user",
     plaintext     |-> password]

---------------------------------------------------------------------------
(* Token Authenticator: src/src/auth/dependencies.py *)

\* TokenBearer.token_valid
token_valid(token) == decode_token(token) /= None

\* verify_token_data with RefreshTokenBearer's test copied from
\* AccessTokenBearer's (the `not` left out)
verify_token_data_copied(bearer, token_data) ==
    IF bearer = "AccessTokenBearer"
    THEN IF token_data /= None /\ token_data.refresh
         THEN "Please provide an access token" ELSE ""
    ELSE IF token_data /= None /\ token_data.refresh
         THEN "Please provide a refresh token" ELSE ""

\* AccessTokenBearer / RefreshTokenBearer .verify_token_data: the detail of
\* the HTTPException raised, "" when none is raised
verify_token_data(bearer, token_data) ==
    IF bearer = "AccessTokenBearer"
    THEN IF token_data /= None /\ token_data.refresh
         THEN "Please provide an access token" ELSE ""
    ELSE IF token_data /= None /\ ~token_data.refresh
         THEN "Please provide a refresh token" ELSE ""

RevokedMsg == "This token is invalid or has been revoked"

\* TokenBearer.__call__ with the type check moved before the revocation check
TokenBearer_checks_type_first(bearer, token_data, blocked) ==
    IF verify_token_data(bearer, token_data) /= ""
    THEN verify_token_data(bearer, token_data)
    ELSE IF blocked THEN RevokedMsg ELSE ""

\* TokenBearer.__call__, lines 43-55, once the store has answered `blocked`:
\* the detail of the HTTPException raised, "" when the token is accepted
TokenBearer_checks(bearer, token_data, blocked) ==
    IF blocked THEN RevokedMsg
    ELSE verify_token_data(bearer, token_data)

\* the dependency each endpoint declares
BearerOf(kind) ==
    IF kind = "refresh_token" THEN "RefreshTokenBearer" ELSE "AccessTokenBearer"

\* a role check that lets every known role through
RoleChecker_any_role(allowed_roles, current_user) ==
    current_user.role \in {"admin", "user"}

\* RoleChecker.__call__ for allowed_roles: TRUE, or the 403 it raises
RoleChecker(allowed_roles, current_user) == current_user.role \in allowed_roles

\* the RoleChecker instances the routers build
role_checker       == {"admin", "user"}     \* auth/routers.py
admin_role_checker == {"admin"}             \* reviews/routes.py
user_role_checker  == {"user", "admin"}     \* reviews/routes.py

\* Endpoints that resolve the user and check the role: GET /me, GET
\* /reviews/ (user_role_checker), and a route declared with
\* dependencies=[admin_role_checker].
RoleGuarded == {"me", "reviews", "admin_only"}

\* POST /reviews/book/{book_uid}, which resolves the user and checks no
\* role, and DELETE /reviews/{review_uid}, which checks user_role_checker
ReviewRoutes == {"add_review", "delete_review"}

AllowedRoles(kind) ==
    IF kind = "admin_only" THEN admin_role_checker
    ELSE IF kind \in {"reviews", "delete_review"} THEN user_role_checker
    ELSE role_checker

---------------------------------------------------------------------------
(* Requests *)

NoCred  == [scheme |-> "none",    alg |-> "", key |-> "", payload |-> None]
Garbage == [scheme |-> "garbage", alg |-> "", key |-> "", payload |-> None]

\* a well-formed token signed with a key that is not the server's
Forged  == [scheme  |-> "jwt",
            alg     |-> JWT_ALGORITHM,
            key     |-> "attacker",
            payload |-> [users   |-> [email |-> "a@x.io", user_uid |-> 1,
                                      role |-> "admin"],
                         exp     |-> 1000000,
                         jti     |-> 0,
                         refresh |-> FALSE]]

\* a well-formed token whose header names an algorithm the server does not
\* allow (alg "none": unsigned)
OtherAlg == [Forged EXCEPT !.alg = "none", !.key = ""]

\* what a client can put in the Authorization header
Credentials ==
    {NoCred, Garbage, Forged, OtherAlg} \cup {issued[i] : i \in 1..Len(issued)}

Protected == {"refresh_token", "me", "logout"}

\* A request as it arrives.  kind, cred, email, password, uid (the uid in
\* the path) and name (the tag name in the body) are what the client sent; pc, token_data and auth are where the handler stands; status,
\* detail and body are the response.  consulted and the seen_ fields record
\* what was the case when the Token Authenticator took its steps:
\*   consulted       token_in_blocklist has returned Redis' answer,
\*   store_error     the lookup in Redis raised instead of answering,
\*   seen_unexpired  the token verified and its expiry was later than the
\*                   clock when the token was parsed,
\*   seen_live       Redis held a live key for the jti when it was asked,
\*   seen_revoked    a logout of the token had completed by then, and the
\*                   token had not yet expired.
\*   after_revoke    a logout of the token had completed by then, whether or
\*                   not the token had expired,
\*   store_before    the keys Redis held when the logout wrote its own.
NewReq == [kind |-> "", pc |-> "start", cred |-> NoCred,
           token_data |-> None, auth |-> "none",
           consulted |-> FALSE, seen_unexpired |-> FALSE,
           seen_live |-> FALSE, seen_revoked |-> FALSE,
           after_revoke |-> FALSE,
           store_before |-> <<>>, store_error |-> FALSE,
           email |-> "", password |-> <<>>, uid |-> 0, name |-> "",
           status |-> 0, detail |-> "", body |-> <<>>]

InFlight == BagToSet(req)

\* the server takes another request
HasFree == BagCardinality(req) < Cardinality(Reqs)

\* A finished request stays in the bag, for its response to be looked at,
\* until Respond removes it; removing it is the next step taken.
NoneDone == \A q \in InFlight : q.pc /= "done"

\* the bag with request q now standing as q2
Becomes(q, q2) == (req (-) SetToBag({q})) (+) SetToBag({q2})

\* the request ends with an HTTP response
Done(q, status, detail, body) ==
    [q EXCEPT !.pc = "done", !.status = status, !.detail = detail,
              !.body = body]

\* an HTTPException raised by the Token Authenticator
Rejected(q, status, detail) ==
    [Done(q, status, detail, <<>>) EXCEPT !.auth = "rejected"]

\* an exception nobody handles: the server answers 500
Fault(q, what) == Done(q, 500, what, <<>>)

\* the token verifies under the server's key
Authentic(cred) ==
    cred.scheme = "jwt" /\ cred.alg = JWT_ALGORITHM /\ cred.key = JWT_SECRET

\* Redis holds a live key for jti
LiveEntry(jti) == jti \in DOMAIN store /\ store[jti] > now

TypeOK ==
    /\ now \in Nat /\ tz \in UTCOffsets /\ ticks \in 0..MaxTicks
    /\ nreq \in 0..MaxRequests
    /\ BagCardinality(req) <= Cardinality(Reqs)
    /\ \A q \in InFlight :
          /\ q.pc \in {"await_blocklist", "await_set", "await_user",
                       "await_commit", "await_handler", "done"}
          /\ q.auth \in {"none", "accepted", "rejected"}
    /\ \A j \in DOMAIN store : store[j] > now

\* The tables outlive the process: the service starts over the rows
\* committed earlier, here one user and one book of that user's.
Shelved == <<[uid |-> 1, user_uid |-> 1, tags |-> {}]>>

Registered ==
    <<[uid           |-> 1,
       email         |-> "a@x.io",
       password_hash |-> generate_passwd_hash(<<"secret1">>, "salt1"),
       role          |-> "user",
       plaintext     |-> <<"secret1">>]>>

Init ==
    /\ now = 0
    /\ tz \in UTCOffsets
    /\ users = Registered
    /\ books = Shelved
    /\ reviews = <<>>
    /\ tags = <<>>
    /\ issued = <<>>
    /\ logins = <<>>
    /\ store = <<>>
    /\ revoked = {}
    /\ nreq = 0
    /\ req = EmptyBag
    /\ ticks = 0

---------------------------------------------------------------------------
(* POST /signup: routers.py create_user_account *)

\* create_user_account without its user_exists lookup
SignupCheck_no_lookup(email, password) ==
    /\ HasFree /\ NoneDone
    /\ nreq < MaxRequests /\ nreq' = nreq + 1
    /\ Len(users) + Cardinality({q \in InFlight : q.pc = "await_commit"})
          < MaxUsers
    /\ LET q == [NewReq EXCEPT !.kind = "signup", !.email = email,
                               !.password = password]
       IN  req' = req (+) SetToBag({[q EXCEPT !.pc = "await_commit"]})
    /\ UNCHANGED <<books, reviews, tags, now, tz, users, issued, logins,
                 store, revoked, ticks>>

\* up to the await of session.commit() in UserService.create_user
SignupCheck(email, password) ==
    /\ HasFree /\ NoneDone
    /\ nreq < MaxRequests /\ nreq' = nreq + 1
    /\ Len(users) + Cardinality({q \in InFlight : q.pc = "await_commit"})
          < MaxUsers
    /\ LET q == [NewReq EXCEPT !.kind = "signup", !.email = email,
                               !.password = password]
       IN  req' = req (+) SetToBag({
                     IF user_exists(email)
                     THEN Done(q, 403, "User with email already exist", <<>>)
                     ELSE [q EXCEPT !.pc = "await_commit"]})
    /\ UNCHANGED <<books, reviews, tags, now, tz, users, issued, logins,
                 store, revoked, ticks>>

\* the commit of the new row, and the 201 response
SignupCommit(q, salt) ==
    /\ q.pc = "await_commit" /\ NoneDone
    /\ users' = Append(users, create_user(q.email, q.password, salt))
    /\ req' = Becomes(q, Done(q, 201, "", <<>>))
    /\ UNCHANGED <<books, reviews, tags, now, tz, issued, logins, store,
                 revoked, nreq, ticks>>

---------------------------------------------------------------------------
(* POST /login: routers.py login_user_account *)

\* login_user_account handing both of its tokens the same jti
login_tokens_same_jti(user) ==
    <<create_access_token(
          [email |-> user.email, user_uid |-> user.uid, role |-> user.role],
          <<>>, FALSE, Len(issued) + 1),
      create_access_token(
          [email |-> user.email, user_uid |-> user.uid],
          <<timedelta(REFRESH_TOKEN_EXPIRY, 0)>>, TRUE, Len(issued) + 1)>>

\* the two tokens a successful login creates, access first
login_tokens(user) ==
    <<create_access_token(
          [email |-> user.email, user_uid |-> user.uid, role |-> user.role],
          <<>>, FALSE, Len(issued) + 1),
      create_access_token(
          [email |-> user.email, user_uid |-> user.uid],
          <<timedelta(REFRESH_TOKEN_EXPIRY, 0)>>, TRUE, Len(issued) + 2)>>

\* login_user_account telling an unknown email from a wrong password
Login_user_not_found(email, password) ==
    /\ HasFree /\ NoneDone
    /\ nreq < MaxRequests /\ nreq' = nreq + 1
    /\ Len(logins) < MaxLogins
    /\ LET q    == [NewReq EXCEPT !.kind = "login", !.email = email,
                                  !.password = password]
           user == get_user_by_email(email)
           ok   == user /= None /\ verify_password(password, user.password_hash)
           toks == login_tokens(user)
       IN  IF ok
           THEN /\ issued' = issued \o toks
                /\ logins' = Append(logins, [access  |-> toks[1].payload.jti,
                                             refresh |-> toks[2].payload.jti])
                /\ req' = req (+) SetToBag({Done(q, 200, "Login successful", toks)})
           ELSE /\ req' = req (+) SetToBag({
                           IF user = None
                           THEN Done(q, 404, "User not found", <<>>)
                           ELSE Done(q, 403, "Invalid Email Or Password", <<>>)})
                /\ UNCHANGED <<issued, logins>>
    /\ UNCHANGED <<books, reviews, tags, now, tz, users, store, revoked,
                 ticks>>

\* login_user_account: it awaits only the SELECT of the user, which is taken
\* with the rest of the handler as one step
Login(email, password) ==
    /\ HasFree /\ NoneDone
    /\ nreq < MaxRequests /\ nreq' = nreq + 1
    /\ Len(logins) < MaxLogins
    /\ LET q    == [NewReq EXCEPT !.kind = "login", !.email = email,
                                  !.password = password]
           user == get_user_by_email(email)
           ok   == user /= None /\ verify_password(password, user.password_hash)
           toks == login_tokens(user)
       IN  IF ok
           THEN /\ issued' = issued \o toks
                /\ logins' = Append(logins, [access  |-> toks[1].payload.jti,
                                             refresh |-> toks[2].payload.jti])
                /\ req' = req (+) SetToBag({Done(q, 200, "Login successful", toks)})
           ELSE /\ req' = req (+) SetToBag({Done(q, 403, "Invalid Email Or Password", <<>>)})
                /\ UNCHANGED <<issued, logins>>
    /\ UNCHANGED <<books, reviews, tags, now, tz, users, store, revoked,
                 ticks>>

---------------------------------------------------------------------------
(* Token Authenticator and the protected endpoints *)

\* the parse step answering 400, as the refresh handler does, instead of 403
TokenBearer_parse_400(q, cred, auto_error) ==
    LET token_data == decode_token(cred)
    IN  IF cred.scheme = "none"
        THEN IF auto_error
             THEN Rejected(q, 403, "Not authenticated")
             ELSE Fault(q, "AttributeError: 'NoneType' object has no attribute 'credentials'")
        ELSE IF ~token_valid(cred)
        THEN Rejected(q, 400, "Invalid or expired token")
        ELSE [q EXCEPT !.pc = "await_blocklist", !.token_data = token_data]

\* HTTPBearer.__call__, then TokenBearer.__call__ lines 28-41: the request
\* record after them.  Without an Authorization header HTTPBearer raises
\* "Not authenticated" when auto_error is set and returns None when it is
\* not; creds.credentials then raises AttributeError.
TokenBearer_parse(q, cred, auto_error) ==
    LET token_data == decode_token(cred)
    IN  IF cred.scheme = "none"
        THEN IF auto_error
             THEN Rejected(q, 403, "Not authenticated")
             ELSE Fault(q, "AttributeError: 'NoneType' object has no attribute 'credentials'")
        ELSE IF ~token_valid(cred)
        THEN Rejected(q, 403, "Invalid or expired token")
        ELSE [q EXCEPT !.pc = "await_blocklist", !.token_data = token_data]

\* a request for endpoint `kind` arrives carrying `cred` at a bearer built
\* with `auto_error`; it runs up to the await of token_in_blocklist
TokenBearer_arrive(kind, cred, auto_error) ==
    /\ HasFree /\ NoneDone
    /\ nreq < MaxRequests /\ nreq' = nreq + 1
    /\ LET q == [NewReq EXCEPT
                   !.kind = kind, !.cred = cred,
                   !.seen_unexpired = Authentic(cred) /\ cred.payload.exp > now]
       IN  req' = req (+) SetToBag({TokenBearer_parse(q, cred, auto_error)})
    /\ UNCHANGED <<books, reviews, tags, now, tz, users, issued, logins,
                 store, revoked, ticks>>

\* the routes build their bearers as AccessTokenBearer() and
\* RefreshTokenBearer(): auto_error keeps its default, True
TokenBearer_call(kind, cred) == TokenBearer_arrive(kind, cred, TRUE)

\* a bearer built as TokenBearer(auto_error=False)
TokenBearer_call_no_auto_error(kind, cred) == TokenBearer_arrive(kind, cred, FALSE)

\* get_new_access_token without its own comparison of the expiry to the clock
get_new_access_token_no_recheck(q) ==
    LET token_details == q.token_data
    IN  IF "user" \in DOMAIN token_details
        THEN Done(q, 200, "",
                  <<create_access_token(token_details.user, <<>>, FALSE,
                                        Len(issued) + 1)>>)
        ELSE Fault(q, "KeyError: 'user'")

\* GET /refresh_token: routers.py get_new_access_token, which runs to its end
\* without awaiting.  token_details is the payload the dependency returned.
get_new_access_token(q) ==
    LET token_details == q.token_data
        expiry_timestamp == token_details.exp
    IN  IF datetime_fromtimestamp(expiry_timestamp) > datetime_now
        THEN IF "user" \in DOMAIN token_details
             THEN Done(q, 200, "",
                       <<create_access_token(token_details.user, <<>>, FALSE,
                                             Len(issued) + 1)>>)
             ELSE Fault(q, "KeyError: 'user'")
        ELSE Done(q, 400, "Invalid Or expired token", <<>>)

\* TokenBearer.__call__ lines 43-58 when Redis answers, and the endpoint's
\* handler up to its first await.
TokenBearer_resume(q0) ==
    /\ q0.pc = "await_blocklist" /\ NoneDone
    /\ LET jti     == q0.token_data.jti
           blocked == token_in_blocklist(jti)
           q       == [q0 EXCEPT
                         !.consulted = TRUE,
                         !.seen_live = LiveEntry(jti),
                         !.seen_revoked = jti \in revoked /\ q0.token_data.exp > now,
                         !.after_revoke = jti \in revoked]
           why     == TokenBearer_checks(BearerOf(q.kind), q.token_data, blocked)
           acc     == [q EXCEPT !.auth = "accepted"]
           next    == IF why /= "" THEN Rejected(q, 403, why)
                      ELSE IF q.kind = "refresh_token"
                           THEN get_new_access_token(acc)
                      ELSE IF q.kind = "logout"
                           THEN [acc EXCEPT !.pc = "await_set"]
                      ELSE [acc EXCEPT !.pc = "await_user"]
       IN  /\ req' = Becomes(q0, next)
           /\ issued' = issued \o next.body
    /\ UNCHANGED <<books, reviews, tags, now, tz, users, logins, store,
                 revoked, nreq, ticks>>

\* token_in_blocklist taking an error of Redis for "not in the blocklist"
TokenBearer_store_down_fail_open(q0) ==
    /\ q0.pc = "await_blocklist" /\ NoneDone
    /\ LET q    == [q0 EXCEPT !.store_error = TRUE]
           why  == TokenBearer_checks(BearerOf(q.kind), q.token_data, FALSE)
           acc  == [q EXCEPT !.auth = "accepted"]
           next == IF why /= "" THEN Rejected(q, 403, why)
                   ELSE IF q.kind = "refresh_token"
                        THEN get_new_access_token(acc)
                   ELSE IF q.kind = "logout"
                        THEN [acc EXCEPT !.pc = "await_set"]
                   ELSE [acc EXCEPT !.pc = "await_user"]
       IN  /\ req' = Becomes(q0, next)
           /\ issued' = issued \o next.body
    /\ UNCHANGED <<books, reviews, tags, now, tz, users, logins, store,
                 revoked, nreq, ticks>>

\* TokenBearer.__call__ line 43 when Redis cannot be reached: the awaited
\* token_blocklist.get raises redis.exceptions.ConnectionError (or
\* TimeoutError), which neither token_in_blocklist nor TokenBearer.__call__
\* catches; the request ends there with a 500.  (No timeout is set on the
\* client: a Redis that never answers leaves the request at the await.)
TokenBearer_store_down(q0) ==
    /\ q0.pc = "await_blocklist" /\ NoneDone
    /\ req' = Becomes(q0, Fault([q0 EXCEPT !.store_error = TRUE],
                                "redis.exceptions.ConnectionError"))
    /\ UNCHANGED <<books, reviews, tags, now, tz, users, issued, logins,
                 store, revoked, nreq, ticks>>

\* revoke_token when Redis cannot be reached: add_jti_to_blocklist raises,
\* nothing is written and the request ends with a 500
revoke_token_store_down(q) ==
    /\ q.pc = "await_set" /\ NoneDone
    /\ req' = Becomes(q, Fault(q, "redis.exceptions.ConnectionError"))
    /\ UNCHANGED <<books, reviews, tags, now, tz, users, issued, logins,
                 store, revoked, nreq, ticks>>

\* GET /logout: routers.py revoke_token, from the SET in Redis to the response
revoke_token(q) ==
    /\ q.pc = "await_set" /\ NoneDone
    /\ store' = add_jti_to_blocklist(q.token_data.jti)
    /\ revoked' = revoked \cup {q.token_data.jti}
    /\ req' = Becomes(q, Done([q EXCEPT !.store_before = store],
                               200, "Logged Out Successfully", <<>>))
    /\ UNCHANGED <<books, reviews, tags, now, tz, users, issued, logins,
                 nreq, ticks>>

\* GET /me and the other routes that resolve the user: dependencies.py
\* get_current_user (the SELECT answers), then the route's RoleChecker where
\* it declares one, and the handler up to its first await.  With no row for
\* the token's email the user is None: RoleChecker reads current_user.role,
\* and add_review_to_book, which declares no RoleChecker, reads
\* current_user.email.
get_current_user(q) ==
    /\ q.pc = "await_user" /\ NoneDone
    /\ LET user == get_user_by_email(q.token_data.users.email)
       IN  req' = Becomes(q,
                     IF user = None
                     THEN IF q.kind = "add_review"
                          THEN Fault(q, "AttributeError: 'NoneType' object has no attribute 'email'")
                          ELSE Fault(q, "AttributeError: 'NoneType' object has no attribute 'role'")
                     ELSE IF q.kind /= "add_review"
                             /\ ~RoleChecker(AllowedRoles(q.kind), user)
                     THEN Done(q, 403, "You are not allowed to perform this action.", <<>>)
                     ELSE IF q.kind \in ReviewRoutes
                     THEN [q EXCEPT !.pc = "await_handler"]
                     ELSE Done(q, 200, "", <<>>))
    /\ UNCHANGED <<books, reviews, tags, now, tz, users, issued, logins,
                 store, revoked, nreq, ticks>>

---------------------------------------------------------------------------
(* Reviews: src/src/reviews/service.py, src/src/reviews/routes.py *)

Max(S) == CHOOSE x \in S : \A y \in S : x >= y

\* a primary key no row of the table holds (uuid.uuid4 in the code)
uuid4(rows) ==
    IF rows = <<>> THEN 1 ELSE Max({rows[i].uid : i \in 1..Len(rows)}) + 1

\* BookService.get_book: result.first() of the SELECT, or None
get_book(book_uid) ==
    LET rows == {i \in 1..Len(books) : books[i].uid = book_uid}
    IN  IF rows = {} THEN None ELSE books[Min(rows)]

\* ReviewService.get_review
get_review(review_uid) ==
    LET rows == {i \in 1..Len(reviews) : reviews[i].uid = review_uid}
    IN  IF rows = {} THEN None ELSE reviews[Min(rows)]

\* POST /reviews/book/{book_uid}: ReviewService.add_review_to_book.  Both
\* `raise HTTPException(404)` stand inside the try block whose handler is
\* `except Exception`; HTTPException is an Exception, so the 404 is caught
\* there and the handler raises the 500 in its place.
add_review_to_book(q, book_uid) ==
    /\ q.kind = "add_review" /\ q.pc = "await_handler" /\ NoneDone
    /\ LET book == get_book(book_uid)
           user == get_user_by_email(q.token_data.users.email)
           q1   == [q EXCEPT !.uid = book_uid]
       IN  IF book = None \/ user = None
           THEN /\ req' = Becomes(q, Done(q1, 500, "Oops ... Something", <<>>))
                /\ UNCHANGED reviews
           ELSE /\ reviews' = Append(reviews, [uid      |-> uuid4(reviews),
                                               user_uid |-> user.uid,
                                               book_uid |-> book.uid])
                /\ req' = Becomes(q, Done(q1, 200, "", <<>>))
    /\ UNCHANGED <<books, tags, now, tz, users, issued, logins, store, revoked,
                 nreq, ticks>>

\* DELETE /reviews/{review_uid}: ReviewService.delete_review_to_from_book.
\* `review.user is not user` compares objects of one AsyncSession: Review.user
\* is a relationship loaded on access.  For the requester's own review the
\* session already holds the row's User, the object get_user_by_email
\* returned; for a review without an author it is None; for another user's
\* review the row has to be fetched, which attribute access on an
\* AsyncSession cannot do: SQLAlchemy raises MissingGreenlet.
delete_review(q, review_uid) ==
    /\ q.kind = "delete_review" /\ q.pc = "await_handler" /\ NoneDone
    /\ LET user   == get_user_by_email(q.token_data.users.email)
           review == get_review(review_uid)
           q1     == [q EXCEPT !.uid = review_uid]
       IN  IF review = None
           THEN /\ req' = Becomes(q, Done(q1, 403, "Cannot delete this review", <<>>))
                /\ UNCHANGED reviews
           ELSE IF user /= None /\ review.user_uid = user.uid
           THEN /\ reviews' = SelectSeq(reviews, LAMBDA r : r.uid /= review.uid)
                /\ req' = Becomes(q, Done(q1, 204, "", <<>>))
           ELSE /\ req' = Becomes(q, Fault(q1, "MissingGreenlet"))
                /\ UNCHANGED reviews
    /\ UNCHANGED <<books, tags, now, tz, users, issued, logins, store, revoked,
                 nreq, ticks>>

---------------------------------------------------------------------------
(* Tags: src/src/tag/service.py.  The service's functions are taken as the
   operations: each runs from its call to its return or its exception. *)

\* the rows of `ts` named `name`: select(Tag).where(Tag.name == name)
tags_named(ts, name) == {i \in 1..Len(ts) : ts[i].name = name}

\* TagService.get_tag_by_uid
get_tag_by_uid(tag_uid) ==
    LET rows == {i \in 1..Len(tags) : tags[i].uid = tag_uid}
    IN  IF rows = {} THEN None ELSE tags[Min(rows)]

\* a call of the tag service arrives and is answered
TagCall(kind, uid, name, status, detail) ==
    /\ HasFree /\ NoneDone
    /\ nreq < MaxRequests /\ nreq' = nreq + 1
    /\ req' = req (+) SetToBag({
                 Done([NewReq EXCEPT !.kind = kind, !.uid = uid, !.name = name],
                      status, detail, <<>>)})

\* TagService.add_tag
add_tag(name) ==
    /\ IF tags_named(tags, name) /= {}
       THEN /\ TagCall("add_tag", 0, name, 403, "Tag exists")
            /\ UNCHANGED tags
       ELSE /\ TagCall("add_tag", 0, name, 200, "")
            /\ tags' = Append(tags, [uid |-> uuid4(tags), name |-> name])
    /\ UNCHANGED <<books, reviews, now, tz, users, issued, logins, store,
                 revoked, ticks>>

\* TagService.update_tag: setattr(tag, "name", v) on the row get_tag_by_uid
\* returned, which is None when no row has the uid
update_tag(tag_uid, name) ==
    /\ IF get_tag_by_uid(tag_uid) = None
       THEN /\ TagCall("update_tag", tag_uid, name, 500,
                       "AttributeError: 'NoneType' object has no attribute 'name'")
            /\ UNCHANGED tags
       ELSE /\ TagCall("update_tag", tag_uid, name, 200, "")
            /\ tags' = [i \in 1..Len(tags) |->
                          IF tags[i].uid = tag_uid
                          THEN [tags[i] EXCEPT !.name = name] ELSE tags[i]]
    /\ UNCHANGED <<books, reviews, now, tz, users, issued, logins, store,
                 revoked, ticks>>

\* TagService.delete_tag; the rows of bookTag that link the tag go with it
delete_tag(tag_uid) ==
    /\ IF get_tag_by_uid(tag_uid) = None
       THEN /\ TagCall("delete_tag", tag_uid, "", 404, "Tag does not exist")
            /\ UNCHANGED <<tags, books>>
       ELSE /\ TagCall("delete_tag", tag_uid, "", 200, "")
            /\ tags' = SelectSeq(tags, LAMBDA t : t.uid /= tag_uid)
            /\ books' = [i \in 1..Len(books) |->
                           [books[i] EXCEPT !.tags = @ \ {tag_uid}]]
    /\ UNCHANGED <<reviews, now, tz, users, issued, logins, store, revoked,
                 ticks>>

\* the loop of add_tags_to_book over tag_data.tags: the tag of each name is
\* looked up with one_or_none(), which raises MultipleResultsFound when two
\* rows have the name, and is created when no row has it; a tag created in
\* one round is flushed before the SELECT of the next.
RECURSIVE link_tags(_, _, _)
link_tags(names, ts, linked) ==
    IF names = <<>> THEN [tags |-> ts, linked |-> linked, raised |-> FALSE]
    ELSE LET rows == tags_named(ts, Head(names))
         IN  IF Cardinality(rows) > 1
             THEN [tags |-> ts, linked |-> linked, raised |-> TRUE]
             ELSE LET tag == IF rows = {}
                             THEN [uid |-> uuid4(ts), name |-> Head(names)]
                             ELSE ts[Min(rows)]
                  IN  link_tags(Tail(names),
                                IF rows = {} THEN Append(ts, tag) ELSE ts,
                                linked \cup {tag.uid})

\* TagService.add_tags_to_book
add_tags_to_book(book_uid, names) ==
    /\ LET book == get_book(book_uid)
           r    == link_tags(names, tags, book.tags)
       IN  IF book = None
           THEN /\ TagCall("add_tags_to_book", book_uid, "", 404, "Book not found")
                /\ UNCHANGED <<tags, books>>
           ELSE IF r.raised
           THEN /\ TagCall("add_tags_to_book", book_uid, "", 500,
                           "MultipleResultsFound")
                /\ UNCHANGED <<tags, books>>
           ELSE /\ TagCall("add_tags_to_book", book_uid, "", 200, "")
                /\ tags' = r.tags
                /\ books' = [i \in 1..Len(books) |->
                               IF books[i].uid = book_uid
                               THEN [books[i] EXCEPT !.tags = r.linked]
                               ELSE books[i]]
    /\ UNCHANGED <<reviews, now, tz, users, issued, logins, store, revoked,
                 ticks>>

\* the response reaches the client
Respond(q) ==
    /\ q.pc = "done"
    /\ req' = req (-) SetToBag({q})
    /\ UNCHANGED <<books, reviews, tags, now, tz, users, issued, logins,
                 store, revoked, nreq, ticks>>

\* The instants the clock is stepped to: the deadlines the state holds (the
\* expiry of every issued token and of every Redis key) and the second before
\* each, and one latency later.
Deadlines ==
    {issued[i].payload.exp : i \in 1..Len(issued)} \cup {store[j] : j \in DOMAIN store}

Instants ==
    Deadlines \cup {d - 1 : d \in Deadlines} \cup {now + MaxLatency}

\* Time passes, up to instant t; Redis drops the keys whose time-to-live has
\* run out.  A request is answered within MaxLatency: while one is in flight
\* the clock moves no further than that.
Tick(t) ==
    /\ ticks < MaxTicks /\ NoneDone
    /\ t > now
    /\ InFlight /= {} => t - now <= MaxLatency
    /\ now' = t
    /\ ticks' = ticks + 1
    /\ store' = ExpireKeys(store, t)
    /\ UNCHANGED <<books, reviews, tags, tz, users, issued, logins, req,
                 revoked, nreq>>

Next ==
    \/ \E e \in Emails, p \in Passwords : Login(e, p)
    \/ \E k \in Protected, c \in Credentials : TokenBearer_call(k, c)
    \/ \E q \in InFlight : TokenBearer_resume(q)
    \/ \E q \in InFlight : TokenBearer_store_down(q)
    \/ \E q \in InFlight : revoke_token(q)
    \/ \E q \in InFlight : revoke_token_store_down(q)
    \/ \E q \in InFlight : get_current_user(q)
    \/ \E q \in InFlight : Respond(q)
    \/ \E t \in Instants : Tick(t)

Spec == Init /\ [][Next]_vars

\* The Token Authenticator as a class: the routes' bearers, and bearers
\* built with auto_error=False.
NextBearer ==
    \/ Next
    \/ \E k \in Protected, c \in Credentials : TokenBearer_call_no_auto_error(k, c)

SpecBearer == Init /\ [][NextBearer]_vars

\* The service with its signup endpoint in use.
NextSignup ==
    \/ Next
    \/ \E e \in Emails, p \in Passwords : SignupCheck(e, p)
    \/ \E q \in InFlight, s \in Salts : SignupCommit(q, s)

SpecSignup == Init /\ [][NextSignup]_vars

\* Signup and login over passwords of every length the schemas admit
\* (UserCreateModel and UserLoginModel set min_length=6 and no maximum).
AllPasswords == Passwords \cup LongPasswords

NextPassword ==
    \/ \E e \in Emails, p \in AllPasswords : SignupCheck(e, p)
    \/ \E q \in InFlight, s \in Salts : SignupCommit(q, s)
    \/ \E e \in Emails, p \in AllPasswords : Login(e, p)
    \/ \E q \in InFlight : Respond(q)

SpecPassword == Init /\ [][NextPassword]_vars

\* The review routes, over a directory of two users and a review the
\* second of them wrote.
BookUids == {1, 2}
ReviewUids == {1, 2, 3}

Reviewers ==
    Registered \o
    <<[uid           |-> 2,
       email         |-> "b@x.io",
       password_hash |-> generate_passwd_hash(<<"secret2">>, "salt1"),
       role          |-> "user",
       plaintext     |-> <<"secret2">>]>>

InitReviews ==
    /\ now = 0
    /\ tz \in UTCOffsets
    /\ users = Reviewers
    /\ books = Shelved
    /\ reviews = <<[uid |-> 1, user_uid |-> 2, book_uid |-> 1]>>
    /\ tags = <<>>
    /\ issued = <<>>
    /\ logins = <<>>
    /\ store = <<>>
    /\ revoked = {}
    /\ nreq = 0
    /\ req = EmptyBag
    /\ ticks = 0

NextReviews ==
    \/ \E e \in Emails, p \in Passwords : Login(e, p)
    \/ \E k \in ReviewRoutes, c \in Credentials : TokenBearer_call(k, c)
    \/ \E q \in InFlight : TokenBearer_resume(q)
    \/ \E q \in InFlight : get_current_user(q)
    \/ \E q \in InFlight, b \in BookUids : add_review_to_book(q, b)
    \/ \E q \in InFlight, r \in ReviewUids : delete_review(q, r)
    \/ \E q \in InFlight : Respond(q)

SpecReviews == InitReviews /\ [][NextReviews]_vars

\* The tag service, called with names and uids from small sets.
TagNames == {"fiction", "history"}
TagUids  == {1, 2, 3}
TagLists == {<<n>> : n \in TagNames} \cup {<<n, m>> : n, m \in TagNames}

NextTags ==
    \/ \E n \in TagNames : add_tag(n)
    \/ \E t \in TagUids, n \in TagNames : update_tag(t, n)
    \/ \E t \in TagUids : delete_tag(t)
    \/ \E b \in BookUids, ns \in TagLists : add_tags_to_book(b, ns)
    \/ \E q \in InFlight : Respond(q)

SpecTags == Init /\ [][NextTags]_vars

\* A row of user_accounts is removed from outside (the service has no
\* endpoint that removes one); tokens issued for its email stay valid.
DropUser(email) ==
    /\ NoneDone
    /\ user_exists(email)
    /\ users' = SelectSeq(users, LAMBDA u : u.email /= email)
    /\ UNCHANGED <<books, reviews, tags, now, tz, issued, logins, store, req,
                 revoked, nreq, ticks>>

\* The routes that resolve the user, over a directory that can lose rows.
NextOrphan ==
    \/ \E e \in Emails, p \in Passwords : Login(e, p)
    \/ \E k \in RoleGuarded, c \in Credentials : TokenBearer_call(k, c)
    \/ \E q \in InFlight : TokenBearer_resume(q)
    \/ \E q \in InFlight : get_current_user(q)
    \/ \E q \in InFlight : Respond(q)
    \/ \E e \in Emails : DropUser(e)

SpecOrphan == Init /\ [][NextOrphan]_vars

\* The Role Authorizer over every role a row of user_accounts can hold and
\* every RoleChecker the routers build.
Roles == {"user", "admin"}

InitRole ==
    /\ now = 0
    /\ tz \in UTCOffsets
    /\ \E role \in Roles : users = <<[Registered[1] EXCEPT !.role = role]>>
    /\ books = Shelved
    /\ reviews = <<>>
    /\ tags = <<>>
    /\ issued = <<>>
    /\ logins = <<>>
    /\ store = <<>>
    /\ revoked = {}
    /\ nreq = 0
    /\ req = EmptyBag
    /\ ticks = 0

NextRole ==
    \/ \E e \in Emails, p \in Passwords : Login(e, p)
    \/ \E k \in RoleGuarded, c \in Credentials : TokenBearer_call(k, c)
    \/ \E q \in InFlight : TokenBearer_resume(q)
    \/ \E q \in InFlight : get_current_user(q)
    \/ \E q \in InFlight : Respond(q)

SpecRole == InitRole /\ [][NextRole]_vars

---------------------------------------------------------------------------
(* Properties *)

IsIssued(cred) == \E i \in 1..Len(issued) : issued[i] = cred

\* q has been through the Token Authenticator's store lookup
Checked(q) == q.kind \in Protected /\ q.consulted

\* q's endpoint wants the other type of token than the one q carries
WrongType(q) == (q.kind = "refresh_token") /= q.token_data.refresh

\* a finished refresh request
RefreshDone(q) == q.kind = "refresh_token" /\ q.pc = "done"

\* C1: after a logout with an access token has completed, every Token
\* Authenticator check of that token made while the token has not yet
\* expired is rejected with the revoked reason, whatever the endpoint.
C1_RevokedAfterLogout ==
    \A q \in InFlight :
        Checked(q) /\ q.seen_revoked
            => q.auth = "rejected" /\ q.detail = RevokedMsg

\* C2: the Token Authenticator accepts a token only if the token verifies
\* under the server's key, its expiry was later than the clock when it was
\* parsed, and Redis held no live key for its jti when it was asked; and no
\* token goes on to the store lookup unless it verified and was unexpired.
C2_AcceptedOnlyIfValid ==
    \A q \in InFlight :
        /\ q.auth = "accepted"
              => /\ Authentic(q.cred)
                 /\ q.seen_unexpired
                 /\ q.consulted /\ ~q.seen_live
        /\ q.consulted => Authentic(q.cred) /\ q.seen_unexpired

C2_Witness ==
    \E q \in InFlight :
        /\ q.auth = "accepted" /\ q.cred.payload.exp - now = 1
        /\ \E j \in revoked : j /= q.cred.payload.jti

\* C3: a valid token that is not revoked is rejected by the access-only
\* check exactly when it is a refresh token and by the refresh-only check
\* exactly when it is not, each with its own message; so of the two checks
\* exactly one lets it through.
C3_TypeDiscriminator ==
    /\ \A q \in InFlight :
          Checked(q) /\ ~q.seen_live =>
              /\ q.auth \in {"accepted", "rejected"}
              /\ q.kind = "refresh_token" =>
                    /\ q.auth = "rejected" <=> ~q.cred.payload.refresh
                    /\ q.auth = "rejected" => q.detail = "Please provide a refresh token"
              /\ q.kind /= "refresh_token" =>
                    /\ q.auth = "rejected" <=> q.cred.payload.refresh
                    /\ q.auth = "rejected" => q.detail = "Please provide an access token"
    /\ \A i \in 1..Len(issued) :
          (verify_token_data("AccessTokenBearer", issued[i].payload) = "")
              /= (verify_token_data("RefreshTokenBearer", issued[i].payload) = "")

C3_Witness ==
    \E q1, q2 \in InFlight :
        /\ Checked(q1) /\ Checked(q2) /\ ~q1.seen_live /\ ~q2.seen_live
        /\ q1.cred = q2.cred /\ ~q1.cred.payload.refresh
        /\ q1.kind = "me" /\ q1.auth = "accepted"
        /\ q2.kind = "refresh_token" /\ q2.auth = "rejected"

\* C4: a token that has been revoked through logout keeps a live key in
\* Redis for as long as the token itself has not expired.
C4_RevokedNeverUsable ==
    \A j \in revoked : issued[j].payload.exp > now => LiveEntry(j)

\* C5: once the access token of a login has been logged out, the refresh
\* token of that login has no key in Redis, and a refresh request carrying
\* it while it is unexpired is answered 200.
C5_RefreshSurvivesLogout ==
    \A i \in 1..Len(logins) :
        logins[i].access \in revoked =>
            /\ logins[i].refresh \notin DOMAIN store
            /\ \A q \in InFlight :
                  /\ RefreshDone(q)
                  /\ q.cred = issued[logins[i].refresh]
                  /\ q.cred.payload.exp > now
                  => q.status = 200

\* C6: a refresh request carrying a valid, unexpired, non-revoked refresh
\* token is answered 200 with one new access token: refresh flag false, a
\* jti no earlier token has, the default lifetime, and the user claims of
\* the refresh token.
C6_RefreshIssuesAccessToken ==
    \A q \in InFlight :
        /\ RefreshDone(q) /\ Authentic(q.cred) /\ q.cred.payload.refresh
        /\ q.cred.payload.exp > now /\ q.consulted /\ ~q.seen_live
        => /\ q.status = 200
           /\ Len(q.body) = 1
           /\ ~q.body[1].payload.refresh
           /\ q.body[1].payload.jti = Len(issued)
           /\ \A i \in 1..(Len(issued) - 1) :
                 issued[i].payload.jti /= q.body[1].payload.jti
           /\ q.body[1].payload.exp = datetime_now + ACCESS_TOKEN_EXPIRY
           /\ q.body[1].payload.users = q.cred.payload.users

\* C7: a successful login returns exactly two tokens with different jti:
\* first an access token, refresh flag false, with claims email, user_uid
\* and role of the user; then a refresh token, refresh flag true, with
\* claims email and user_uid.
C7_LoginIssuesTwoTokens ==
    \A q \in InFlight :
        q.kind = "login" /\ q.pc = "done" /\ q.status = 200 =>
            /\ Len(q.body) = 2
            /\ q.body[1].payload.jti /= q.body[2].payload.jti
            /\ q.body[1].payload.refresh = FALSE
            /\ q.body[2].payload.refresh = TRUE
            /\ DOMAIN q.body[1].payload.users = {"email", "user_uid", "role"}
            /\ DOMAIN q.body[2].payload.users = {"email", "user_uid"}
            /\ \E i \in 1..Len(users) :
                  /\ users[i].email = q.email
                  /\ q.body[1].payload.users =
                        [email |-> q.email, user_uid |-> users[i].uid,
                         role |-> users[i].role]
                  /\ q.body[2].payload.users =
                        [email |-> q.email, user_uid |-> users[i].uid]

C7_Witness ==
    \E q \in InFlight :
        q.kind = "login" /\ q.pc = "done" /\ q.status = 200 /\ Len(q.body) = 2

\* C8: a refresh request carrying a refresh token whose expiry is not later
\* than the clock is rejected with a 4xx response (Redis, if it was asked,
\* having answered), and no token is issued for it.
C8_ExpiredRefreshRejected ==
    \A q \in InFlight :
        /\ RefreshDone(q) /\ IsIssued(q.cred) /\ q.cred.payload.refresh
        /\ q.cred.payload.exp <= now /\ ~q.store_error
        => q.status \in {400, 403} /\ q.body = <<>>

C8_Witness ==
    \E q \in InFlight :
        /\ RefreshDone(q) /\ IsIssued(q.cred) /\ q.cred.payload.refresh
        /\ q.cred.payload.exp <= now
        /\ q.consulted /\ q.status = 400

\* C9 as the table of endpoints states it: a refresh request that fails
\* because its token is invalid or expired is answered 400.
C9_RefreshFailureIs400 ==
    \A q \in InFlight :
        /\ RefreshDone(q) /\ q.cred /= NoCred
        /\ ~Authentic(q.cred) \/ q.cred.payload.exp <= now
        => q.status = 400

\* C9: a refresh request whose token is invalid or already expired when the
\* Token Authenticator parses it is answered 403 "Invalid or expired token";
\* 400 is the answer only to a request whose token passed the Token
\* Authenticator and has expired when the handler compares its expiry to
\* the clock.
C9_RefreshFailureStatus ==
    \A q \in InFlight :
        RefreshDone(q) =>
            /\ q.cred /= NoCred /\ ~q.seen_unexpired
                  => q.status = 403 /\ q.detail = "Invalid or expired token"
            /\ q.status = 400
                  <=> q.auth = "accepted" /\ q.cred.payload.exp <= now

C9_Witness ==
    \E q \in InFlight :
        /\ RefreshDone(q) /\ IsIssued(q.cred) /\ q.cred.payload.refresh
        /\ ~q.seen_unexpired /\ q.status = 403

\* C10: the Token Authenticator parses, then asks the store, then looks at
\* the type: a token that does not verify or has expired is rejected as
\* "Invalid or expired token" without the store being asked, and a token
\* with a live key in Redis is rejected with the revoked reason whether or
\* not it is of the type the endpoint wants.
C10_CheckOrder ==
    \A q \in InFlight :
        /\ q.kind \in Protected /\ q.cred /= NoCred /\ ~q.seen_unexpired
              => /\ ~q.consulted /\ q.pc = "done" /\ q.auth = "rejected"
                 /\ q.detail = "Invalid or expired token"
        /\ Checked(q) /\ q.seen_live
              => /\ q.pc = "done" /\ q.auth = "rejected"
                 /\ q.detail = RevokedMsg

C10_Witness ==
    \E q \in InFlight :
        /\ Checked(q) /\ q.seen_live /\ WrongType(q)
        /\ q.detail = RevokedMsg

\* C11: whatever the request carries and however the bearer was built,
\* the Token Authenticator ends in Accepted or in Rejected: no request to a
\* protected endpoint that Redis has not failed ends without one of the two
\* verdicts.
C11_AuthenticatorTotal ==
    \A q \in InFlight :
        q.kind \in Protected /\ q.pc = "done" /\ ~q.store_error
            => q.auth \in {"accepted", "rejected"}

\* the email of login request q has a row in user_accounts
KnownEmail(q) == \E i \in 1..Len(users) : users[i].email = q.email

\* the password of login request q is the one the row was registered with
RightPassword(q) ==
    \E i \in 1..Len(users) :
        users[i].email = q.email /\ users[i].plaintext = q.password

RoleOf(q) ==
    LET i == CHOOSE i \in 1..Len(users) : users[i].email = q.cred.payload.users.email
    IN  users[i].role

\* q went through get_current_user and the role check of its route
RoleChecked(q) ==
    /\ q.kind \in RoleGuarded /\ q.pc = "done" /\ q.auth = "accepted"
    /\ \E i \in 1..Len(users) : users[i].email = q.cred.payload.users.email

\* C13: the role check lets a request through exactly when the role of the
\* resolved user is in the route's allowed set and otherwise answers 403
\* "You are not allowed to perform this action."; a "user" is refused on an
\* admin-only route and an "admin" is let through on admin-only and on
\* mixed routes.
C13_RoleAuthorizer ==
    \A q \in InFlight :
        RoleChecked(q) =>
            /\ q.status = 200 <=> RoleOf(q) \in AllowedRoles(q.kind)
            /\ q.status /= 200 =>
                  /\ q.status = 403
                  /\ q.detail = "You are not allowed to perform this action."
            /\ q.kind = "admin_only" /\ RoleOf(q) = "user" => q.status = 403
            /\ RoleOf(q) = "admin" => q.status = 200

C13_Witness ==
    \E q \in InFlight :
        /\ RoleChecked(q) /\ q.kind = "admin_only"
        /\ RoleOf(q) = "user" /\ q.status = 403

\* a logout that has written its jti to the store and answered 200
LogoutDone(q) == q.kind = "logout" /\ q.pc = "done" /\ q.status = 200

\* C14: a jti is in the blocklist as soon as a logout has revoked it, under a
\* key that expires JTI_EXPIRY = 3600 seconds after the revoke; from one
\* instant to the next a key of the store is in the blocklist exactly as
\* long as the clock is before the key's expiry.
C14_RevokedForTTL ==
    [][/\ \A q \in BagToSet(req') :
             LogoutDone(q) =>
                 /\ token_in_blocklist(q.token_data.jti)'
                 /\ store'[q.token_data.jti] = now' + JTI_EXPIRY
       /\ \A jti \in DOMAIN store :
             token_in_blocklist(jti)' <=> now' < store[jti]
      ]_vars

C14_Witness ==
    \E jti \in revoked : jti \notin DOMAIN store /\ ~token_in_blocklist(jti)

\* C15: the key a logout writes lives at least as long as the longest-lived
\* token the server issues, the refresh token of REFRESH_TOKEN_EXPIRY = 2
\* days.
C15_EntryOutlivesLongestToken ==
    \A q \in InFlight :
        LogoutDone(q) =>
            store[q.token_data.jti] - now >= timedelta(REFRESH_TOKEN_EXPIRY, 0)

\* a logout that wrote a jti the store already held
RevokedAgain(q) == LogoutDone(q) /\ q.token_data.jti \in DOMAIN q.store_before

\* C16 as stated: a logout of a jti the store already holds leaves the store
\* as it was, with the same keys and the same expiry for each.
C16_RevokeLeavesStore ==
    \A q \in InFlight : RevokedAgain(q) => store = q.store_before

\* C16: a logout of a jti the store already holds leaves the same keys in
\* the store and the expiry of every other key as it was; the key of the
\* jti now expires JTI_EXPIRY seconds after this logout, which is no earlier
\* than before and the same instant only if no time has passed since the
\* earlier logout.
C16_RevokeResetsExpiry ==
    \A q \in InFlight :
        RevokedAgain(q) =>
            LET jti == q.token_data.jti
            IN  /\ DOMAIN store = DOMAIN q.store_before
                /\ \A k \in DOMAIN store \ {jti} : store[k] = q.store_before[k]
                /\ store[jti] = now + JTI_EXPIRY
                /\ store[jti] >= q.store_before[jti]

C16_Witness ==
    \E q \in InFlight :
        /\ RevokedAgain(q)
        /\ store[q.token_data.jti] > q.store_before[q.token_data.jti]

\* C17: the tokens a login issues expire at the time of issue plus their
\* time-to-live: ACCESS_TOKEN_EXPIRY = 3600 seconds for the access token,
\* REFRESH_TOKEN_EXPIRY = 2 days for the refresh token.
C17_ExpiryIsIssuePlusTTL ==
    \A q \in InFlight :
        q.kind = "login" /\ q.pc = "done" /\ q.status = 200 =>
            /\ q.body[1].payload.exp = now + ACCESS_TOKEN_EXPIRY
            /\ q.body[2].payload.exp = now + timedelta(REFRESH_TOKEN_EXPIRY, 0)

\* C18: for every token a client can send, decode_token returns to its
\* caller and raises nothing; it returns None when the token is malformed,
\* names an algorithm that is not allowed, is signed with another key or
\* has expired, and the token's payload only when the token is signed with
\* the server's key and algorithm and its expiry is later than the clock.
C18_ParseNeverRaises ==
    \A cred \in Credentials \ {NoCred} :
        LET token_data == decode_token(cred)
        IN  /\ ~Raised(token_data)
            /\ token_data = None
                  <=> ~(Authentic(cred) /\ cred.payload.exp > now)
            /\ token_data /= None => token_data = cred.payload

C18_Witness ==
    /\ \E q \in InFlight :
          /\ q.cred = OtherAlg
          /\ q.auth = "rejected" /\ q.detail = "Invalid or expired token"
    /\ \E i \in 1..Len(issued) : issued[i].payload.exp <= now
    /\ \E i \in 1..Len(issued) : issued[i].payload.exp > now

\* C19: a request whose lookup in Redis raised is never accepted by the
\* Token Authenticator: it ends at once with a 500, no handler runs for it
\* and it returns no token.
C19_StoreDownFailsSafe ==
    \A q \in InFlight :
        q.store_error =>
            /\ q.auth = "none"
            /\ q.pc = "done" /\ q.status = 500 /\ q.body = <<>>

C19_Witness ==
    \E q \in InFlight :
        /\ q.store_error /\ q.kind = "me" /\ q.auth = "none"
        /\ Authentic(q.cred) /\ ~q.cred.payload.refresh
        /\ q.cred.payload.exp > now /\ ~LiveEntry(q.cred.payload.jti)

\* C20: however the requests interleave, a Token Authenticator check that
\* reads Redis after a logout has written the token's jti ends in Rejected.
C20_ReadAfterRevokeRejected ==
    \A q \in InFlight :
        Checked(q) /\ q.after_revoke => q.auth = "rejected"

\* the issued tokens that carry jti
TokensOf(jti) == {i \in 1..Len(issued) : issued[i].payload.jti = jti}

\* C21: no two issued tokens carry the same jti, so a key of the store
\* names exactly one token, the one a logout presented, and a check that
\* finds a live key is a check of that very token.
C21_UniqueIdentifiers ==
    /\ \A i, j \in 1..Len(issued) :
          i /= j => issued[i].payload.jti /= issued[j].payload.jti
    /\ \A jti \in DOMAIN store :
          Cardinality(TokensOf(jti)) = 1 /\ jti \in revoked
    /\ \A q \in InFlight :
          Checked(q) /\ q.seen_live =>
              TokensOf(q.cred.payload.jti) = {q.cred.payload.jti}

C21_Witness ==
    /\ Len(issued) >= 2
    /\ \E q \in InFlight :
          /\ Checked(q) /\ q.auth = "accepted" /\ ~q.seen_live
          /\ \E jti \in DOMAIN store : jti /= q.cred.payload.jti

\* C22: the store changes in two ways only.  With the clock standing, the
\* step is a logout answered 200 that presented an issued access token and
\* wrote that token's jti, every other key staying as it was; with the clock
\* moving, keys whose time-to-live has run out are dropped and nothing is
\* added.  Signup, login, refresh, who-am-i and every request that is
\* rejected leave the store as it is.
C22_StoreFrame ==
    [][store' /= store =>
         IF now' = now
         THEN \E q \in BagToSet(req') :
                 /\ LogoutDone(q) /\ q.store_before = store
                 /\ IsIssued(q.cred) /\ ~q.cred.payload.refresh
                 /\ DOMAIN store' = DOMAIN store \cup {q.cred.payload.jti}
                 /\ \A jti \in DOMAIN store :
                       jti /= q.cred.payload.jti => store'[jti] = store[jti]
         ELSE /\ req' = req
              /\ DOMAIN store' \subseteq DOMAIN store
              /\ \A jti \in DOMAIN store :
                    IF store[jti] > now' THEN jti \in DOMAIN store' /\ store'[jti] = store[jti]
                    ELSE jti \notin DOMAIN store'
      ]_vars

C22_Witness ==
    /\ \E q \in InFlight : LogoutDone(q) /\ q.store_before /= store
    /\ Len(users) > Len(Registered)

\* a signup request
IsSignup(q) == q.kind = "signup"

\* C23: a signup whose email the directory already holds when the handler
\* looks it up is answered 403 "User with email already exist" and the
\* directory stays as it is; a signup whose email it does not hold goes on
\* to commit, and the commit appends exactly one row, for that email, and
\* answers 201.  Nothing else changes the directory.
C23_SignupOutcome ==
    [][/\ \A q \in BagToSet(req') :
             IsSignup(q) /\ nreq' = nreq + 1 /\ CopiesIn(q, req') > CopiesIn(q, req) =>
                 /\ users' = users
                 /\ IF user_exists(q.email)
                    THEN /\ q.pc = "done" /\ q.status = 403
                         /\ q.detail = "User with email already exist"
                    ELSE q.pc = "await_commit"
       /\ \A q \in BagToSet(req) :
             IsSignup(q) /\ q.pc = "await_commit" /\ CopiesIn(q, req') < CopiesIn(q, req) =>
                 /\ Len(users') = Len(users) + 1
                 /\ SubSeq(users', 1, Len(users)) = users
                 /\ users'[Len(users')].email = q.email
                 /\ \E q2 \in BagToSet(req') :
                       IsSignup(q2) /\ q2.pc = "done" /\ q2.status = 201
       /\ users' /= users =>
             \E q \in BagToSet(req) :
                 IsSignup(q) /\ q.pc = "await_commit" /\ CopiesIn(q, req') < CopiesIn(q, req)
      ]_vars

C23_Witness ==
    /\ \E q \in InFlight :
          IsSignup(q) /\ q.pc = "done" /\ q.status = 403 /\ q.email = "b@x.io"
    /\ Len(users) = Len(Registered) + 1

\* C24: a login for a registered email is answered with tokens exactly when
\* the password supplied is the password the email was registered with.
C24_LoginIffSamePassword ==
    \A q \in InFlight :
        q.kind = "login" /\ q.pc = "done" /\ KnownEmail(q) =>
            (q.status = 200 /\ Len(q.body) = 2 <=> RightPassword(q))

\* C25: every row of the directory holds the role "user": the rows signup
\* appends are created with it, and no operation the service exposes
\* rewrites the role of a row or removes one.
C25_EveryRoleIsUser ==
    [][/\ \A i \in 1..Len(users') : users'[i].role = "user"
       /\ Len(users') >= Len(users)
       /\ \A i \in 1..Len(users) : users'[i] = users[i]
      ]_vars

C25_Witness ==
    /\ \E i \in 1..Len(users) : users[i].email = "b@x.io"
    /\ \E q \in InFlight : q.kind = "me" /\ q.pc = "done" /\ q.status = 200

\* request q is taken up by its handler in this step
Handled(q) == q.pc = "await_handler" /\ CopiesIn(q, req') < CopiesIn(q, req)

\* C26: adding a review to a book uid that no book has is answered 404
\* "Book not found", and no review is created.
C26_UnknownBookIs404 ==
    [][\A q \in BagToSet(req) :
          q.kind = "add_review" /\ Handled(q) =>
              \E q2 \in BagToSet(req') :
                  /\ q2.kind = "add_review" /\ q2.pc = "done"
                  /\ get_book(q2.uid) = None =>
                        /\ q2.status = 404 /\ q2.detail = "Book not found"
                        /\ reviews' = reviews
      ]_vars

\* C27: delete_review removes a review exactly when the review exists and
\* the requesting user wrote it, and then removes that review alone; in
\* every other case the answer is 403 and the reviews stay as they are.
C27_DeleteOwnReviewOnly ==
    [][\A q \in BagToSet(req) :
          q.kind = "delete_review" /\ Handled(q) =>
              \E q2 \in BagToSet(req') :
                  /\ q2.kind = "delete_review" /\ q2.pc = "done"
                  /\ LET review == get_review(q2.uid)
                         user   == get_user_by_email(q.token_data.users.email)
                     IN  IF review /= None /\ user /= None
                            /\ review.user_uid = user.uid
                         THEN /\ q2.status = 204
                              /\ reviews' = SelectSeq(reviews,
                                               LAMBDA r : r.uid /= q2.uid)
                         ELSE /\ q2.status = 403
                              /\ reviews' = reviews
      ]_vars

\* C28: no two rows of the tags table have the same name, whatever add_tag,
\* add_tags_to_book, update_tag and delete_tag have been called with.
C28_TagNamesUnique ==
    \A i, j \in 1..Len(tags) : i /= j => tags[i].name /= tags[j].name

\* C29: however concurrent signups interleave, no two rows of the directory
\* have the same email.
C29_OneUserPerEmail ==
    \A i, j \in 1..Len(users) : i /= j => users[i].email /= users[j].email

\* C30: a request that the Token Authenticator accepted, for a token whose
\* email has no row in the directory, is answered with a rejection addressed
\* to the client (a 4xx status), not with the 500 of an unhandled exception.
C30_MissingUserRejected ==
    \A q \in InFlight :
        /\ q.kind \in RoleGuarded /\ q.pc = "done" /\ q.auth = "accepted"
        /\ get_user_by_email(q.token_data.users.email) = None
        => q.status \in 400..499

====
